---------------------------- MODULE Spec2Model ----------------------------
(***************************************************************************)
(* Model of the streaming-ingest pipeline of the Arduino accelerometer     *)
(* reader: TCPClient (modules/tcp_client.py), SensorDataManager            *)
(* (modules/sensor_data_manager.py) and the GUI callbacks that drive them  *)
(* (gui.py).                                                               *)
(*                                                                         *)
(* Text is a sequence of one-character strings.  Numbers read by float()   *)
(* are kept in fixed point: a parsed float is an integer number of tenths, *)
(* a stored timestamp (seconds in the code) is an integer number of        *)
(* microseconds, an interval is an integer number of milliseconds.         *)
(***************************************************************************)
EXTENDS Integers, Sequences, FiniteSets, TLC

VARIABLES
    socket,          \* TCPClient.socket: id of the socket object, 0 for None
    sockSt,          \* state of every socket object created so far
    stop_event,      \* TCPClient.stop_event (TRUE when set)
    connected,       \* TCPClient.connected
    thr,             \* the receiver threads started by connect()
    data,            \* SensorDataManager.data (the defaultdict and its keys)
    active_sensors,  \* SensorDataManager.active_sensors
    buffer,          \* SensorDataManager.buffer
    params,          \* SensorDataManager.params
    starting_time,   \* SensorDataManager.starting_time
    status,          \* the GUI item "status"
    mismatch_info,   \* the GUI item "interval_mismatch_info" (TRUE: warning)
    lastSent,        \* the last command written to the socket
    fg,              \* the GUI callback running on the foreground thread
    script,          \* what the board will transmit, segment by segment
    sentIdx,         \* number of segments the board has transmitted
    wire,            \* text sent by the board and not yet read by recv
    peer,            \* the board's end of the connection
    arrived,         \* history: has board data arrived while recording,
                     \* and while not recording
    clicks,          \* number of GUI callbacks the user may still start
    console,         \* the last text print() wrote to standard output
    framed           \* history: lines handed to process_line (framer runs)

vars == <<socket, sockSt, stop_event, connected, thr, data, active_sensors,
          buffer, params, starting_time, status, mismatch_info, lastSent,
          fg, script, sentIdx, wire, peer, arrived, clicks, console,
          framed>>

-----------------------------------------------------------------------------
(* Bounds of the model *)

\* GUI callbacks the user starts during one run (button presses, combo
\* selections); each connect among them creates a socket and a thread
MaxCallbacks == 3
\* GUI callbacks of a run of SpecFour
MaxFourCallbacks == 4
\* length of a text stream fed to the framer alone
MaxStreamLen == 5

-----------------------------------------------------------------------------
(* Text *)

NL == "\n"
Whitespace == {" ", "\t", "\r", NL}
Digits == {"0", "1", "2", "3", "4", "5", "6", "7", "8", "9"}

DigitVal(c) ==
    CASE c = "0" -> 0 [] c = "1" -> 1 [] c = "2" -> 2 [] c = "3" -> 3
      [] c = "4" -> 4 [] c = "5" -> 5 [] c = "6" -> 6 [] c = "7" -> 7
      [] c = "8" -> 8 [] c = "9" -> 9

\* first index of character c in s, 0 when absent
RECURSIVE IndexFrom(_, _, _)
IndexFrom(s, c, i) ==
    IF i > Len(s) THEN 0
    ELSE IF s[i] = c THEN i ELSE IndexFrom(s, c, i + 1)

Contains(s, c) == IndexFrom(s, c, 1) # 0

\* str.strip()
RECURSIVE LStrip(_)
LStrip(s) ==
    IF s # <<>> /\ Head(s) \in Whitespace THEN LStrip(Tail(s)) ELSE s

RECURSIVE RStrip(_)
RStrip(s) ==
    IF s # <<>> /\ s[Len(s)] \in Whitespace
    THEN RStrip(SubSeq(s, 1, Len(s) - 1)) ELSE s

Strip(s) == RStrip(LStrip(s))

\* str.split(c): the fields between the occurrences of c
RECURSIVE Split(_, _)
Split(s, c) ==
    LET i == IndexFrom(s, c, 1) IN
    IF i = 0 THEN <<s>>
    ELSE <<SubSeq(s, 1, i - 1)>> \o Split(SubSeq(s, i + 1, Len(s)), c)

\* buffer.split('\n', 1): the text before the first newline and the rest
SplitFirst(s) ==
    LET i == IndexFrom(s, NL, 1) IN
    <<SubSeq(s, 1, i - 1), SubSeq(s, i + 1, Len(s))>>

\* a buffer that keeps only the latest chunk: the carry-over is lost
BufferAppendForgets(buf, chunk) == chunk

\* buffer += data
BufferAppend(buf, chunk) == buf \o chunk

AllDigits(s) == \A i \in 1..Len(s) : s[i] \in Digits

RECURSIVE DigitsVal(_)
DigitsVal(s) ==
    IF s = <<>> THEN 0
    ELSE 10 * DigitsVal(SubSeq(s, 1, Len(s) - 1)) + DigitVal(s[Len(s)])

Unsigned(s) == IF s # <<>> /\ Head(s) \in {"-", "+"} THEN Tail(s) ELSE s
Sign(s) == IF s # <<>> /\ Head(s) = "-" THEN -1 ELSE 1

\* int(text): surrounding whitespace, an optional sign, at least one digit
IsInt(text) ==
    LET u == Unsigned(Strip(text)) IN u # <<>> /\ AllDigits(u)

IntVal(text) == Sign(Strip(text)) * DigitsVal(Unsigned(Strip(text)))

\* float(text), over the characters the model's lines use: surrounding
\* whitespace, an optional sign, digits with at most one point and at
\* least one digit
IsFloat(text) ==
    LET u == Unsigned(Strip(text))
        p == IndexFrom(u, ".", 1)
        whole == IF p = 0 THEN u ELSE SubSeq(u, 1, p - 1)
        frac == IF p = 0 THEN <<>> ELSE SubSeq(u, p + 1, Len(u))
    IN  /\ AllDigits(whole) /\ AllDigits(frac)
        /\ Len(whole) + Len(frac) >= 1

\* the value of float(text) in tenths (the model's lines carry at most one
\* fractional digit)
FloatVal(text) ==
    LET u == Unsigned(Strip(text))
        p == IndexFrom(u, ".", 1)
        whole == IF p = 0 THEN u ELSE SubSeq(u, 1, p - 1)
        frac == IF p = 0 THEN <<>> ELSE SubSeq(u, p + 1, Len(u))
    IN  Sign(Strip(text)) *
        (10 * DigitsVal(whole) + (IF frac = <<>> THEN 0 ELSE DigitVal(frac[1])))

\* round(n / d) as Python rounds: to the nearest, ties to the even integer
Round(n, d) ==
    LET q == n \div d
        r == n % d
    IN  IF 2 * r < d THEN q
        ELSE IF 2 * r > d THEN q + 1
        ELSE IF q % 2 = 0 THEN q ELSE q + 1

Abs(n) == IF n < 0 THEN -n ELSE n

SetMin(S) == CHOOSE m \in S : \A n \in S : m <= n

RECURSIVE SeqMin(_)
SeqMin(s) ==
    IF Len(s) = 1 THEN s[1]
    ELSE LET m == SeqMin(Tail(s)) IN IF s[1] <= m THEN s[1] ELSE m

-----------------------------------------------------------------------------
(* SensorDataManager: the record parser and the store *)

\* one entry of the defaultdict: five parallel lists
NewSeries ==
    [timestamp |-> <<>>, x |-> <<>>, y |-> <<>>, z |-> <<>>,
     normalized_timestamp |-> <<>>]

EmptyDict == [k \in {} |-> NewSeries]

\* self.data[k]: the entry of key k, which a defaultdict creates when missing
Touch(d, k) ==
    IF k \in DOMAIN d THEN d
    ELSE [j \in DOMAIN d \cup {k} |-> IF j = k THEN NewSeries ELSE d[j]]

\* an append that files every reading under sensor 0
AppendToShared(d, k, f, v) ==
    [Touch(d, 0) EXCEPT ![0] = [@ EXCEPT ![f] = Append(@, v)]]

\* self.data[k][f].append(v)
AppendTo(d, k, f, v) ==
    [Touch(d, k) EXCEPT ![k] = [@ EXCEPT ![f] = Append(@, v)]]

\* ["1 Hz", "2 G", "1000", ""]: datarate, range, expected and actual interval;
\* the actual interval is <<>> while it is the empty string, else <<ms>>
InitParams ==
    [datarate |-> 1, range |-> 2, expected_interval |-> 1000,
     actual_interval |-> <<>>]

\* Python's truth value of params[3]: "" and 0 are false
Truthy(a) == a # <<>> /\ a[1] # 0

\* data_parts = line.split(",")
Parts(line) == Split(line, ",")

\* the try block of process_line up to the first append raises nothing:
\* int(parts[0]), float(parts[1]), and x, y, z = map(float, parts[2:5])
ParseOK(line) ==
    LET p == Parts(line) IN
    /\ IsInt(p[1])
    /\ Len(p) >= 2 /\ IsFloat(p[2])
    /\ Len(p) >= 5
    /\ \A i \in 3..5 : IsFloat(p[i])

SensorId(line) == IntVal(Parts(line)[1])

\* float(parts[1]) * 0.001: milliseconds to seconds (kept in microseconds)
TimestampOf(line) == FloatVal(Parts(line)[2]) * 100

XOf(line) == FloatVal(Parts(line)[3])
YOf(line) == FloatVal(Parts(line)[4])
ZOf(line) == FloatVal(Parts(line)[5])

\* self.starting_time[sensor_id] on a list of eight entries
StartIndexOK(sid) == -8 <= sid /\ sid <= 7
StartIndex(sid) == IF sid < 0 THEN sid + 8 ELSE sid

\* _normalize_timestamp: the starting time after the call
NormalizeStart(st, d, sid) ==
    IF st[StartIndex(sid)] = 0
    THEN [st EXCEPT ![StartIndex(sid)] = SeqMin(d[sid].timestamp)]
    ELSE st

\* the interval with the conversion to milliseconds left out
IntervalOfSeconds(ts) == Round(ts[Len(ts)] - ts[Len(ts) - 1], 1000000)

\* (timestamps[-1] - timestamps[-2]) * 1000, rounded: seconds to ms
IntervalOf(ts) == Round(ts[Len(ts)] - ts[Len(ts) - 1], 1000)

\* _check_for_interval_mismatch: abs(mismatch) > 10
Mismatch(expected, actual) == Abs(expected - actual) > 10

\* the data rates offered by the datarate_choice combo, gui.py line 69
DatarateCombo == {1, 10, 25, 50, 100}

\* the interval without the factor: int(1 / datarate)
ExpectedIntervalSeconds(rate) == 1 \div rate

\* int(1 / datarate * 1000)
ExpectedInterval(rate) == 1000 \div rate

-----------------------------------------------------------------------------
(* The board: the text it transmits *)

C == <<",">>
T1000 == <<"1", "0", "0", "0">>
T1050 == <<"1", "0", "5", "0">>
XYZ == <<"1">> \o C \o <<"2">> \o C \o <<"3">>

\* "0,1000,1,2,3\n" and "0,1050,1,2,3\n": two readings of sensor 0
LineA == <<"0">> \o C \o T1000 \o C \o XYZ \o <<NL>>
LineB == <<"0">> \o C \o T1050 \o C \o XYZ \o <<NL>>
\* "0,1\n": too few fields
LineShort == <<"0">> \o C \o <<"1">> \o <<NL>>
\* "\n": an empty line
LineEmpty == <<NL>>
\* "a,1000,1,2,3\n": five fields, the sensor id no integer
LineBadId == <<"a">> \o C \o T1000 \o C \o XYZ \o <<NL>>

\* what the board sends during one run, in the segments the network delivers
Scripts ==
    { <<LineA \o LineA \o LineB>>,
      <<LineA, LineB>>,
      <<LineShort \o LineA>>,
      <<LineEmpty \o LineA>>,
      <<LineBadId \o LineA>>,
      <<SubSeq(LineA, 1, 4), SubSeq(LineA, 5, Len(LineA))>> }

-----------------------------------------------------------------------------
(* State after AccelerometerReaderGUI.__init__ *)

BUFFER_SIZE == 4096

NoThread == [pc |-> "none", line |-> <<>>, sock |-> 0, got |-> "", exc |-> ""]
Idle == [op |-> "idle", pc |-> "idle", arg |-> 0]

InitProgram ==
    /\ socket = 0
    /\ sockSt = [i \in 1..MaxCallbacks |-> "none"]
    /\ stop_event = FALSE
    /\ connected = FALSE
    /\ thr = [i \in 1..MaxCallbacks |-> NoThread]
    /\ data = EmptyDict
    /\ active_sensors = {}
    /\ buffer = <<>>
    /\ params = InitParams
    /\ starting_time = [i \in 0..7 |-> 0]
    /\ status = ""
    /\ mismatch_info = FALSE
    /\ lastSent = ""
    /\ fg = Idle
    /\ sentIdx = 0
    /\ wire = <<>>
    /\ peer = "none"
    /\ arrived = [recording |-> FALSE, stopped |-> FALSE]
    /\ console = ""
    /\ framed = <<>>

Init ==
    /\ InitProgram
    /\ clicks = MaxCallbacks
    /\ script \in Scripts

Alive(t) == thr[t].pc \notin {"none", "done", "crashed"}
Recording == connected /\ ~stop_event

-----------------------------------------------------------------------------
(* The board and the network *)

envVars == <<script, sentIdx, wire, peer, arrived>>
Click == clicks > 0 /\ clicks' = clicks - 1
guiVars == <<status, mismatch_info>>
storeVars == <<data, active_sensors, buffer, params, starting_time>>
connVars == <<socket, sockSt, stop_event, connected>>

\* the next segment of the board's text arrives at the host
BoardSend ==
    /\ socket # 0 /\ sockSt[socket] = "open" /\ peer = "up"
    /\ sentIdx < Len(script)
    /\ sentIdx' = sentIdx + 1
    /\ wire' = wire \o script[sentIdx + 1]
    /\ arrived' = [arrived EXCEPT ![IF Recording THEN "recording"
                                     ELSE "stopped"] = TRUE]
    /\ UNCHANGED <<connVars, thr, storeVars, guiVars, lastSent, fg, script,
                   peer, framed, console, clicks>>

\* the board closes the connection, resets it, or stops answering
PeerFail ==
    /\ socket # 0 /\ sockSt[socket] = "open" /\ peer = "up"
    /\ \E how \in {"closed", "reset", "timeout"} : peer' = how
    /\ UNCHANGED <<connVars, thr, storeVars, guiVars, lastSent, fg, script,
                   sentIdx, wire, arrived, framed, console, clicks>>

-----------------------------------------------------------------------------
(* TCPClient._receive_data: one receiver thread t, statement by statement *)

Goto(t, pc) == thr' = [thr EXCEPT ![t].pc = pc]
Crash(t, exc) == thr' = [thr EXCEPT ![t].pc = "crashed", ![t].exc = exc]

\* line 73: if not self.stop_event.is_set(); a set event only spins the loop
rx_check(t) ==
    /\ thr[t].pc = "check"
    /\ ~stop_event
    /\ thr' = [thr EXCEPT ![t].pc = "recv", ![t].sock = socket]
    /\ UNCHANGED <<connVars, storeVars, guiVars, lastSent, fg, envVars, framed, console, clicks>>

\* what self.socket.recv(BUFFER_SIZE) on socket object s can do now; the
\* empty set is a blocked call.  Closing a socket under a blocked recv ends
\* the call with ConnectionAbortedError or another OSError, or leaves it
\* blocked, depending on the platform.
RecvOutcomes(s) ==
    IF sockSt[s] = "closed" THEN {"aborted", "oserror"}
    ELSE IF sockSt[s] = "unconnected" THEN {"oserror"}
    ELSE IF s # socket THEN {"eof", "reset"}
    ELSE IF peer = "reset" THEN {"reset"}
    ELSE IF wire # <<>> THEN {"data"}
    ELSE IF peer = "closed" THEN {"eof"}
    ELSE IF peer = "timeout" THEN {"timeout"}
    ELSE {}

\* lines 74-75: data = recv(...).decode(); buffer += data
rx_recv(t) ==
    /\ thr[t].pc = "recv"
    /\ \E o \in RecvOutcomes(thr[t].sock) :
        LET n == IF Len(wire) < BUFFER_SIZE THEN Len(wire) ELSE BUFFER_SIZE IN
        CASE o = "data" ->
               /\ buffer' = BufferAppend(buffer, SubSeq(wire, 1, n))
               /\ wire' = SubSeq(wire, n + 1, Len(wire))
               /\ thr' = [thr EXCEPT ![t].pc = "frame", ![t].got = "data"]
          [] o = "eof" ->
               /\ buffer' = BufferAppend(buffer, <<>>)
               /\ wire' = wire
               /\ thr' = [thr EXCEPT ![t].pc = "frame", ![t].got = "eof"]
          [] o \in {"reset", "aborted"} ->
               /\ UNCHANGED <<buffer, wire>>
               /\ thr' = [thr EXCEPT ![t].pc = "except", ![t].got = o,
                                     ![t].exc = "ConnectionError"]
          [] o = "timeout" ->
               /\ UNCHANGED <<buffer, wire>>
               /\ thr' = [thr EXCEPT ![t].pc = "except", ![t].got = o,
                                     ![t].exc = "TimeoutError"]
          [] o = "oserror" ->
               /\ UNCHANGED <<buffer, wire>>
               /\ thr' = [thr EXCEPT ![t].pc = "crashed", ![t].got = o,
                                     ![t].exc = "OSError"]
    /\ UNCHANGED <<connVars, data, active_sensors, params, starting_time,
                   guiVars, lastSent, fg, script, sentIdx, peer, arrived,
                   framed, console, clicks>>

\* line 77: while '\n' in self.data_manager.buffer
rx_frame(t) ==
    /\ thr[t].pc = "frame"
    /\ Goto(t, IF Contains(buffer, NL) THEN "split" ELSE "check")
    /\ UNCHANGED <<connVars, storeVars, guiVars, lastSent, fg, envVars, framed, console, clicks>>

\* line 78: line, buffer = buffer.split('\n', 1); a buffer that lost its
\* newline since line 77 yields one part and the unpacking raises ValueError
rx_split(t) ==
    /\ thr[t].pc = "split"
    /\ IF Contains(buffer, NL)
       THEN /\ thr' = [thr EXCEPT ![t].pc = "proc",
                                  ![t].line = SplitFirst(buffer)[1]]
            /\ buffer' = SplitFirst(buffer)[2]
       ELSE /\ Crash(t, "ValueError")
            /\ buffer' = buffer
    /\ UNCHANGED <<connVars, data, active_sensors, params, starting_time,
                   guiVars, lastSent, fg, envVars, framed, console, clicks>>

\* process_line(line.strip()), lines 86-94: the empty line returns, a line
\* that does not parse reports "Invalid data", a parsed one appends its
\* timestamp
rx_proc(t) ==
    LET line == Strip(thr[t].line) IN
    /\ thr[t].pc = "proc"
    /\ IF line = <<>>
       THEN /\ Goto(t, "gui")
            /\ UNCHANGED <<data, status>>
       ELSE IF ~ParseOK(line)
       THEN /\ Goto(t, "gui")
            /\ status' = "Invalid data"
            /\ data' = data
       ELSE /\ Goto(t, "app_x")
            /\ data' = AppendTo(data, SensorId(line), "timestamp",
                                TimestampOf(line))
            /\ status' = status
    /\ UNCHANGED <<connVars, active_sensors, buffer, params, starting_time,
                   mismatch_info, lastSent, fg, envVars, framed, console, clicks>>

\* lines 95-97: the x, y and z appends, one statement each
rx_append(t) ==
    LET line == Strip(thr[t].line) IN
    /\ thr[t].pc \in {"app_x", "app_y", "app_z"}
    /\ CASE thr[t].pc = "app_x" ->
              /\ data' = AppendTo(data, SensorId(line), "x", XOf(line))
              /\ Goto(t, "app_y")
         [] thr[t].pc = "app_y" ->
              /\ data' = AppendTo(data, SensorId(line), "y", YOf(line))
              /\ Goto(t, "app_z")
         [] thr[t].pc = "app_z" ->
              /\ data' = AppendTo(data, SensorId(line), "z", ZOf(line))
              /\ Goto(t, "app_norm")
    /\ UNCHANGED <<connVars, active_sensors, buffer, params, starting_time,
                   guiVars, lastSent, fg, envVars, framed, console, clicks>>

\* line 98 with _normalize_timestamp (154-160); its IndexError (a sensor id
\* outside the list) and ValueError (min of an empty list) are caught at 105
rx_normalize(t) ==
    LET line == Strip(thr[t].line)
        sid == SensorId(line)
        d == Touch(data, sid)
    IN
    /\ thr[t].pc = "app_norm"
    /\ IF ~StartIndexOK(sid)
          \/ (starting_time[StartIndex(sid)] = 0 /\ d[sid].timestamp = <<>>)
       THEN /\ data' = d
            /\ starting_time' = starting_time
            /\ status' = "Invalid data"
            /\ Goto(t, "gui")
       ELSE /\ starting_time' = NormalizeStart(starting_time, d, sid)
            /\ data' = AppendTo(d, sid, "normalized_timestamp",
                     TimestampOf(line) - starting_time'[StartIndex(sid)])
            /\ status' = status
            /\ Goto(t, "active")
    /\ UNCHANGED <<connVars, active_sensors, buffer, params, mismatch_info,
                   lastSent, fg, envVars, framed, console, clicks>>

\* lines 101-103: the sensor joins active_sensors
rx_active(t) ==
    /\ thr[t].pc = "active"
    /\ active_sensors' = active_sensors \cup {SensorId(Strip(thr[t].line))}
    /\ Goto(t, "gui")
    /\ UNCHANGED <<connVars, data, buffer, params, starting_time, guiVars,
                   lastSent, fg, envVars, framed, console, clicks>>

\* _update_gui_table(line), lines 125-132: parts[0..4] of the line are read,
\* and a line of fewer than five fields raises IndexError, which nothing
\* in _receive_data catches
GuiRowOK(line) == Len(Parts(Strip(line))) >= 5

rx_gui(t) ==
    /\ thr[t].pc = "gui"
    /\ IF GuiRowOK(thr[t].line)
       THEN Goto(t, "iv_len")
       ELSE Crash(t, "IndexError")
    /\ UNCHANGED <<connVars, storeVars, guiVars, lastSent, fg, envVars, framed, console, clicks>>

\* _update_actual_interval, line 141: if len(active_sensors) >= 1
rx_iv_len(t) ==
    /\ thr[t].pc = "iv_len"
    /\ Goto(t, IF Cardinality(active_sensors) >= 1 THEN "iv_calc" ELSE "frame")
    /\ UNCHANGED <<connVars, storeVars, guiVars, lastSent, fg, envVars, framed, console, clicks>>

\* lines 142-148: the reference sensor's last two timestamps give the
\* interval when params[3] is false; min() of a set emptied since line 141
\* raises ValueError
rx_iv_calc(t) ==
    /\ thr[t].pc = "iv_calc"
    /\ IF active_sensors = {}
       THEN /\ Crash(t, "ValueError")
            /\ UNCHANGED <<data, params>>
       ELSE LET ref == SetMin(active_sensors)
                d == Touch(data, ref)
                ts == d[ref].timestamp
            IN
            /\ data' = d
            /\ IF Len(ts) >= 2 /\ ~Truthy(params.actual_interval)
               THEN /\ params' = [params EXCEPT
                                    !.actual_interval = <<IntervalOf(ts)>>]
                    /\ Goto(t, "mismatch")
               ELSE /\ params' = params
                    /\ Goto(t, "frame")
    /\ UNCHANGED <<connVars, active_sensors, buffer, starting_time, guiVars,
                   lastSent, fg, envVars, framed, console, clicks>>

\* _check_for_interval_mismatch, lines 155-162
rx_mismatch(t) ==
    /\ thr[t].pc = "mismatch"
    /\ mismatch_info' =
         IF Truthy(params.actual_interval)
         THEN Mismatch(params.expected_interval, params.actual_interval[1])
         ELSE mismatch_info
    /\ Goto(t, "frame")
    /\ UNCHANGED <<connVars, storeVars, status, lastSent, fg, envVars, framed, console, clicks>>

\* lines 82-89: the handlers report and call disconnect(); here the report
\* and disconnect's lines 174-175
rx_except(t) ==
    /\ thr[t].pc = "except"
    /\ status' = IF thr[t].exc = "TimeoutError"
                 THEN "Connection timed out. Check the hardware."
                 ELSE "Connection lost."
    /\ IF connected
       THEN stop_event' = TRUE /\ Goto(t, "x_close")
       ELSE stop_event' = stop_event /\ Goto(t, "done")
    /\ UNCHANGED <<socket, sockSt, connected, storeVars, mismatch_info,
                   lastSent, fg, envVars, framed, console, clicks>>

\* disconnect(), line 176: self.socket.close()
rx_close(t) ==
    /\ thr[t].pc = "x_close"
    /\ sockSt' = [sockSt EXCEPT ![socket] = "closed"]
    /\ Goto(t, "x_flag")
    /\ UNCHANGED <<socket, stop_event, connected, storeVars, guiVars,
                   lastSent, fg, envVars, framed, console, clicks>>

\* disconnect(), line 177, then the break of line 85 or 89
rx_flag(t) ==
    /\ thr[t].pc = "x_flag"
    /\ connected' = FALSE
    /\ Goto(t, "done")
    /\ UNCHANGED <<socket, sockSt, stop_event, storeVars, guiVars, lastSent,
                   fg, envVars, framed, console, clicks>>

_receive_data(t) ==
    \/ rx_check(t) \/ rx_recv(t) \/ rx_frame(t) \/ rx_split(t)
    \/ rx_proc(t) \/ rx_append(t) \/ rx_normalize(t) \/ rx_active(t)
    \/ rx_gui(t) \/ rx_iv_len(t) \/ rx_iv_calc(t) \/ rx_mismatch(t)
    \/ rx_except(t) \/ rx_close(t) \/ rx_flag(t)

-----------------------------------------------------------------------------
(* The foreground thread: the GUI callbacks of gui.py and the TCPClient     *)
(* methods they call, statement by statement                                *)

\* the values the user can pick in the datarate and range combo boxes
DatarateChoices == {1, 10}
RangeChoices == {2, 4}

At(op, pc) == fg.op = op /\ fg.pc = pc
FgGoto(pc) == fg' = [fg EXCEPT !.pc = pc]

SocketsCreated == Cardinality({i \in 1..MaxCallbacks : sockSt[i] # "none"})

\* what socket.sendall can do on self.socket now
SendOutcomes ==
    IF socket = 0 THEN {"oserror"}
    ELSE IF sockSt[socket] = "closed" THEN {"oserror"}
    ELSE IF sockSt[socket] = "unconnected" THEN {"conn_error", "oserror"}
    ELSE IF peer \in {"closed", "reset"} THEN {"ok", "conn_error"}
    ELSE {"ok"}

\* _connect_callback -> connect(), lines 41-45: a new socket object replaces
\* self.socket and connects or fails (line 52 reports the failure)
connect_socket ==
    /\ fg = Idle
    /\ Click
    /\ SocketsCreated < MaxCallbacks
    /\ LET id == SocketsCreated + 1 IN
       /\ socket' = id
       /\ \E ok \in BOOLEAN :
            IF ok
            THEN /\ sockSt' = [sockSt EXCEPT ![id] = "open"]
                 /\ wire' = <<>>
                 /\ peer' = "up"
                 /\ status' = status
                 /\ fg' = [op |-> "connect", pc |-> "c_start", arg |-> id]
            ELSE /\ sockSt' = [sockSt EXCEPT ![id] = "unconnected"]
                 /\ UNCHANGED <<wire, peer>>
                 /\ status' = "Connection failed"
                 /\ fg' = [op |-> "connect", pc |-> "c_fail", arg |-> id]
    /\ UNCHANGED <<stop_event, connected, thr, storeVars, mismatch_info,
                   lastSent, script, sentIdx, arrived, framed, console>>

\* connect(), lines 46-48: stop_event.set() and the receiver thread starts
connect_start ==
    /\ At("connect", "c_start")
    /\ stop_event' = TRUE
    /\ thr' = [thr EXCEPT ![fg.arg] = [NoThread EXCEPT !.pc = "check"]]
    /\ FgGoto("c_flag")
    /\ UNCHANGED <<socket, sockSt, connected, storeVars, guiVars, lastSent,
                   envVars, framed, console, clicks>>

\* connect(), lines 49-50, and _connect_callback, line 202
connect_flag ==
    /\ At("connect", "c_flag")
    /\ connected' = TRUE
    /\ status' = "Connected successfully!"
    /\ fg' = Idle
    /\ UNCHANGED <<socket, sockSt, stop_event, thr, storeVars, mismatch_info,
                   lastSent, envVars, framed, console, clicks>>

\* _connect_callback, line 206
connect_fail ==
    /\ At("connect", "c_fail")
    /\ status' = "Cannot connect."
    /\ fg' = Idle
    /\ UNCHANGED <<connVars, thr, storeVars, mismatch_info, lastSent,
                   envVars, framed, console, clicks>>

\* a disconnect() that does not test the connection state
DisconnectGuardAbsent == TRUE

\* disconnect(), line 174: if self.connected
DisconnectGuard == connected

\* _disconnect_callback -> disconnect(), lines 174-175 (the definition of
\* line 172 replaces the one of line 55)
disconnect_check ==
    /\ fg = Idle
    /\ Click
    /\ IF DisconnectGuard
       THEN /\ stop_event' = TRUE
            /\ fg' = [op |-> "disconnect", pc |-> "d_close", arg |-> 1]
       ELSE /\ stop_event' = stop_event
            /\ fg' = [op |-> "disconnect", pc |-> "d_ret", arg |-> 0]
    /\ UNCHANGED <<socket, sockSt, connected, thr, storeVars, guiVars,
                   lastSent, envVars, framed, console>>

\* disconnect(), line 176
disconnect_close ==
    /\ At("disconnect", "d_close")
    /\ sockSt' = [sockSt EXCEPT ![socket] = "closed"]
    /\ FgGoto("d_flag")
    /\ UNCHANGED <<socket, stop_event, connected, thr, storeVars, guiVars,
                   lastSent, envVars, framed, console, clicks>>

\* a disconnect() that also drops what was recorded
disconnect_flag_clearing ==
    /\ At("disconnect", "d_flag")
    /\ connected' = FALSE
    /\ data' = EmptyDict
    /\ active_sensors' = {}
    /\ FgGoto("d_ret")
    /\ UNCHANGED <<socket, sockSt, stop_event, thr, buffer, params,
                   starting_time, guiVars, lastSent, envVars, framed,
                   console, clicks>>

\* disconnect(), line 177
disconnect_flag ==
    /\ At("disconnect", "d_flag")
    /\ connected' = FALSE
    /\ FgGoto("d_ret")
    /\ UNCHANGED <<socket, sockSt, stop_event, thr, storeVars, guiVars,
                   lastSent, envVars, framed, console, clicks>>

\* disconnect() returns None, so _disconnect_callback reports nothing
disconnect_return ==
    /\ At("disconnect", "d_ret")
    /\ fg' = Idle
    /\ UNCHANGED <<connVars, thr, storeVars, guiVars, lastSent, envVars, framed, console, clicks>>

\* a _start_recording() that goes straight to stop_event.clear()
StartFirstPcNoClear == "s_event"

\* _start_recording, line 232: self._clear_data_callback() comes first
StartFirstPc == "clr_data"

\* a callback that routes every command, connected or not
CommandGuardAbsent == TRUE

\* _command_callback, line 215: if self.tcp_client.connected
CommandGuard == connected

\* _command_callback, lines 215-228: the command is routed when connected
_command_callback ==
    /\ fg = Idle
    /\ Click
    /\ \E cmd \in {"START", "STOP", "SET_DATARATE", "SET_RANGE"} :
       \E v \in CASE cmd = "SET_DATARATE" -> DatarateChoices
                  [] cmd = "SET_RANGE" -> RangeChoices
                  [] OTHER -> {0} :
         IF CommandGuard
         THEN /\ fg' = [op |-> cmd, arg |-> v,
                        pc |-> CASE cmd = "START" -> StartFirstPc
                                 [] cmd = "STOP" -> "t_send"
                                 [] OTHER -> "u_check"]
              /\ status' = status
         ELSE /\ fg' = Idle
              /\ status' = "Connect to the board"
    /\ UNCHANGED <<connVars, thr, storeVars, mismatch_info, lastSent,
                   envVars, framed, console>>

\* the "Clear data" button: _clear_data_callback
clear_button ==
    /\ fg = Idle
    /\ Click
    /\ fg' = [op |-> "clear", pc |-> "clr_data", arg |-> 0]
    /\ UNCHANGED <<connVars, thr, storeVars, guiVars, lastSent, envVars, framed, console>>

\* pd.DataFrame(self.data[sensor_id]), line 149: the five lists of a series
\* become the columns of a frame when they have one length; lists of
\* different lengths raise ValueError
SeriesOK(s) ==
    /\ Len(s.x) = Len(s.timestamp) /\ Len(s.y) = Len(s.timestamp)
    /\ Len(s.z) = Len(s.timestamp)
    /\ Len(s.normalized_timestamp) = Len(s.timestamp)

\* lines 149-150: the rows of one sensor's frame, tagged with the sensor id
SensorRows(d, sid) ==
    LET s == Touch(d, sid)[sid] IN
    {[sensor_id |-> sid, index |-> i, timestamp |-> s.timestamp[i],
      x |-> s.x[i], y |-> s.y[i], z |-> s.z[i],
      normalized_timestamp |-> s.normalized_timestamp[i]] :
        i \in 1..Len(s.timestamp)}

\* _convert_to_dataframe, lines 147-152: the rows of the table built from the
\* store as it is now, over the active sensors (the key that self.data[...]
\* creates for an active sensor without a series holds no reading)
_convert_to_dataframe ==
    IF \E sid \in active_sensors : ~SeriesOK(Touch(data, sid)[sid])
    THEN {"ValueError"}
    ELSE UNION {SensorRows(data, sid) : sid \in active_sensors}

\* a clear_data() that leaves the active sensors alone
ClearedSensorsKept == active_sensors

\* self.active_sensors.clear(), line 111
ClearedSensors == {}

\* a clear that puts every parameter back to its initial value
ClearedParamsAll(p) == InitParams

\* clear_data(), line 113: self.params[3] = ""
ClearedParams(p) == [p EXCEPT !.actual_interval = <<>>]

\* clear_data(), lines 110-113, one statement each
clear_data ==
    /\ fg.pc \in {"clr_data", "clr_active", "clr_buffer", "clr_params"}
    /\ CASE fg.pc = "clr_data" ->
              /\ data' = EmptyDict
              /\ UNCHANGED <<active_sensors, buffer, params>>
              /\ FgGoto("clr_active")
         [] fg.pc = "clr_active" ->
              /\ active_sensors' = ClearedSensors
              /\ UNCHANGED <<data, buffer, params>>
              /\ FgGoto("clr_buffer")
         [] fg.pc = "clr_buffer" ->
              /\ buffer' = <<>>
              /\ UNCHANGED <<data, active_sensors, params>>
              /\ FgGoto("clr_params")
         [] fg.pc = "clr_params" ->
              /\ params' = ClearedParams(params)
              /\ UNCHANGED <<data, active_sensors, buffer>>
              /\ FgGoto("clr_gui")
    /\ UNCHANGED <<connVars, thr, starting_time, guiVars, lastSent, envVars,
                   framed, console, clicks>>

\* clear_data(), lines 115-117, and _clear_data_callback, lines 241-244
clear_gui ==
    /\ fg.pc = "clr_gui"
    /\ mismatch_info' = FALSE
    /\ status' = "Data cleared successfully"
    /\ fg' = IF fg.op = "START" THEN [fg EXCEPT !.pc = "s_event"] ELSE Idle
    /\ UNCHANGED <<connVars, thr, storeVars, lastSent, envVars, framed, console, clicks>>

\* _start_recording, line 234: self.tcp_client.stop_event.clear()
start_event ==
    /\ At("START", "s_event")
    /\ stop_event' = FALSE
    /\ FgGoto("s_send")
    /\ UNCHANGED <<socket, sockSt, connected, thr, storeVars, guiVars,
                   lastSent, envVars, framed, console, clicks>>

\* a send_command() that writes whether connected or not
SendGuardAbsent == TRUE

\* send_command, line 167: if self.connected
SendGuard == connected

\* send_command(command), lines 166-170, for START (gui.py 235, 223) and for
\* STOP (tcp_client.py 193): nothing is written when not connected, a reset
\* or broken pipe is caught and printed, any other OSError leaves the
\* callback
send_command ==
    /\ fg.pc \in {"s_send", "t_send", "u_stop_send"}
    /\ LET cmd == IF fg.pc = "s_send" THEN "START" ELSE "STOP"
           next == CASE fg.pc = "s_send" -> "s_status"
                     [] fg.pc = "t_send" -> "t_event"
                     [] fg.pc = "u_stop_send" -> "u_stop_event"
       IN
       IF ~SendGuard
       THEN FgGoto(next) /\ UNCHANGED <<lastSent, console>>
       ELSE \E o \in SendOutcomes :
              CASE o = "ok" ->
                     FgGoto(next) /\ lastSent' = cmd /\ console' = console
                [] o = "conn_error" ->
                     /\ FgGoto(next)
                     /\ lastSent' = lastSent
                     /\ console' = "Connection lost"
                [] o = "oserror" ->
                     FgGoto("raised") /\ UNCHANGED <<lastSent, console>>
    /\ UNCHANGED <<connVars, thr, storeVars, guiVars, envVars, framed, clicks>>

\* _command_callback, line 223, after _start_recording
start_status ==
    /\ At("START", "s_status")
    /\ status' = "Sent command: START"
    /\ fg' = Idle
    /\ UNCHANGED <<connVars, thr, storeVars, mismatch_info, lastSent,
                   envVars, framed, console, clicks>>

\* stop_recording(), line 194, and _command_callback, line 223
stop_recording ==
    /\ At("STOP", "t_event")
    /\ stop_event' = TRUE
    /\ status' = "Sent command: STOP"
    /\ fg' = Idle
    /\ UNCHANGED <<socket, sockSt, connected, thr, storeVars, mismatch_info,
                   lastSent, envVars, framed, console, clicks>>

\* update_sensor_parameters("SET_DATARATE"), from the GUI or from
\* reset_sensors
RateOps == {"SET_DATARATE", "EXIT_DATARATE"}

\* where the caller of update_sensor_parameters continues: reset_sensors
\* goes on to the range (line 186), a GUI callback is over
UpdateDone ==
    IF fg.op = "EXIT_DATARATE"
    THEN [op |-> "exit", pc |-> "r_range", arg |-> 0]
    ELSE Idle

\* update_sensor_parameters, lines 200-205 and 219-222: a value equal to the
\* stored one changes nothing; a recording is stopped first
update_check ==
    /\ fg.pc = "u_check"
    /\ LET old == IF fg.op \in RateOps THEN params.datarate
                  ELSE params.range
       IN  fg' = IF fg.arg = old THEN UpdateDone
                 ELSE IF ~stop_event THEN [fg EXCEPT !.pc = "u_stop_send"]
                 ELSE [fg EXCEPT !.pc = "u_store"]
    /\ UNCHANGED <<connVars, thr, storeVars, guiVars, lastSent, envVars, framed, console, clicks>>

\* stop_recording() called at line 206 or 223: line 194, then the status
update_stop ==
    /\ fg.pc = "u_stop_event"
    /\ stop_event' = TRUE
    /\ status' = "Recording was stopped"
    /\ FgGoto("u_reset")
    /\ UNCHANGED <<socket, sockSt, connected, thr, storeVars, mismatch_info,
                   lastSent, envVars, framed, console, clicks>>

\* lines 208-209 and 225-226: params[3] = ""
update_reset ==
    /\ fg.pc = "u_reset"
    /\ params' = [params EXCEPT !.actual_interval = <<>>]
    /\ FgGoto("u_store")
    /\ UNCHANGED <<connVars, thr, data, active_sensors, buffer, starting_time,
                   guiVars, lastSent, envVars, framed, console, clicks>>

\* lines 213-217 (datarate and expected interval) and 228-229 (range)
update_store ==
    /\ fg.pc = "u_store"
    /\ IF fg.op \in RateOps
       THEN /\ params' = [params EXCEPT
                            !.datarate = fg.arg,
                            !.expected_interval = ExpectedInterval(fg.arg)]
            /\ status' = status
       ELSE /\ params' = [params EXCEPT !.range = fg.arg]
            /\ status' = "New sensor range was set"
    /\ FgGoto("u_send")
    /\ UNCHANGED <<connVars, thr, data, active_sensors, buffer, starting_time,
                   mismatch_info, lastSent, envVars, framed, console, clicks>>

\* lines 231-235: self.socket.sendall(new_value), outside any try
update_send ==
    /\ fg.pc = "u_send"
    /\ \E o \in SendOutcomes :
         IF o = "ok"
         THEN /\ lastSent' = ToString(fg.arg)
              /\ status' = "New parameter was set"
              /\ fg' = UpdateDone
         ELSE /\ UNCHANGED <<lastSent, status>>
              /\ FgGoto("raised")
    /\ UNCHANGED <<connVars, thr, storeVars, mismatch_info, envVars, framed, console, clicks>>

\* the exit callback of gui.py line 48: reset_sensors(); the application
\* closes, no callback follows
exit_callback ==
    /\ fg = Idle
    /\ clicks > 0
    /\ clicks' = 0
    /\ fg' = [op |-> "exit", pc |-> "r_rate", arg |-> 0]
    /\ UNCHANGED <<connVars, thr, storeVars, guiVars, lastSent, envVars, framed, console>>

\* reset_sensors, lines 182-185: a datarate other than "1 Hz" is set back
\* through update_sensor_parameters("SET_DATARATE")
reset_datarate ==
    /\ fg.pc = "r_rate"
    /\ IF params.datarate # InitParams.datarate
       THEN /\ console' = "I have been activated"
            /\ fg' = [op |-> "EXIT_DATARATE", pc |-> "u_check",
                      arg |-> InitParams.datarate]
       ELSE /\ console' = console
            /\ fg' = [op |-> "exit", pc |-> "r_range", arg |-> 0]
    /\ UNCHANGED <<connVars, thr, storeVars, guiVars, lastSent, envVars, framed, clicks>>

\* reset_sensors, lines 186-188: the same for the range
reset_range ==
    /\ fg.pc = "r_range"
    /\ fg' = IF params.range # InitParams.range
             THEN [op |-> "EXIT_RANGE", pc |-> "u_check",
                   arg |-> InitParams.range]
             ELSE Idle
    /\ UNCHANGED <<connVars, thr, storeVars, guiVars, lastSent, envVars, framed, console, clicks>>

\* an exception that left a callback: the GUI library drops the callback
callback_raised ==
    /\ fg.pc = "raised"
    /\ fg' = Idle
    /\ UNCHANGED <<connVars, thr, storeVars, guiVars, lastSent, envVars, framed, console, clicks>>

ForegroundRest ==
    \/ connect_start \/ connect_flag \/ connect_fail
    \/ disconnect_check \/ disconnect_close \/ disconnect_flag
    \/ disconnect_return
    \/ _command_callback \/ clear_button \/ clear_data \/ clear_gui
    \/ start_event \/ send_command \/ start_status \/ stop_recording
    \/ update_check \/ update_stop \/ update_reset \/ update_store
    \/ update_send \/ callback_raised

Foreground == connect_socket \/ ForegroundRest

Next ==
    \/ Foreground
    \/ \E t \in 1..MaxCallbacks : _receive_data(t)
    \/ BoardSend
    \/ PeerFail

Spec == Init /\ [][Next]_vars

\* the runs in which the user connects once: connect() is called a single
\* time, so one socket and one receiver thread exist
OneConnection == SocketsCreated <= 1

NextOne ==
    \/ connect_socket /\ OneConnection'
    \/ ForegroundRest
    \/ \E t \in 1..MaxCallbacks : _receive_data(t)
    \/ BoardSend
    \/ PeerFail

SpecOne == Init /\ [][NextOne]_vars

-----------------------------------------------------------------------------
(* Ingest runs: one connection, the user only starts recordings and clears  *)
(* the data, the receiver thread does not run while clear_data() and         *)
(* _clear_data_callback run, and the board sends records of more shapes       *)

\* "3,1500.0,0.1,0.2,9.8\n": a reading of sensor 3
Line3 ==
    <<"3">> \o C \o <<"1", "5", "0", "0", ".", "0">> \o C \o <<"0", ".", "1">>
        \o C \o <<"0", ".", "2">> \o C \o <<"9", ".", "8">> \o <<NL>>
\* "0,1000,1,2,3,4\n": six fields
LineSix == <<"0">> \o C \o T1000 \o C \o XYZ \o C \o <<"4">> \o <<NL>>
\* "0,1000,1,2\n": four fields
LineFour == <<"0">> \o C \o T1000 \o C \o <<"1">> \o C \o <<"2">> \o <<NL>>

\* "9,1000,1,2,3\n" and "-1,1000,1,2,3\n": sensor ids outside 0..7
Line9 == <<"9">> \o C \o T1000 \o C \o XYZ \o <<NL>>
LineNeg == <<"-", "1">> \o C \o T1000 \o C \o XYZ \o <<NL>>
\* "0,0,1,2,3\n" and "0,-50,1,2,3\n": a timestamp of 0 and a smaller one
LineZero == <<"0">> \o C \o <<"0">> \o C \o XYZ \o <<NL>>
LineMinus == <<"0">> \o C \o <<"-", "5", "0">> \o C \o XYZ \o <<NL>>

IngestScripts ==
    { <<LineA, LineB>>,
      <<LineA \o Line3>>,
      <<LineSix \o LineA>>,
      <<LineFour>>,
      <<Line9 \o LineA>>,
      <<LineNeg>>,
      <<LineB \o LineA>>,
      <<LineZero \o LineMinus>> }

InitIngest ==
    /\ InitProgram
    /\ clicks = MaxCallbacks
    /\ script \in IngestScripts

\* the foreground is inside clear_data() or _clear_data_callback
ClearPcs == {"clr_data", "clr_active", "clr_buffer", "clr_params", "clr_gui"}

NextIngest ==
    \/ connect_socket /\ OneConnection'
    \/ connect_start \/ connect_flag \/ connect_fail
    \/ _command_callback /\ fg'.op \in {"START", "idle"}
    \/ clear_button \/ clear_data \/ clear_gui
    \/ start_event \/ send_command \/ start_status \/ callback_raised
    \/ \E t \in 1..MaxCallbacks : _receive_data(t) /\ fg.pc \notin ClearPcs
    \/ BoardSend
    \/ PeerFail

SpecIngest == InitIngest /\ [][NextIngest]_vars

-----------------------------------------------------------------------------
(* Four callbacks in a row, one more than the other specifications allow:
   connect, START, then disconnect or a second START, then connect or STOP. *)

InitFour ==
    /\ InitProgram
    /\ clicks = MaxFourCallbacks
    /\ script = <<LineA, LineB>>

NextFour ==
    \/ connect_socket /\ clicks \in {MaxFourCallbacks, 1}
    \/ connect_start \/ connect_flag \/ connect_fail
    \/ _command_callback
          /\ clicks \in {MaxFourCallbacks - 1, MaxFourCallbacks - 2}
          /\ fg'.op \in {"START", "idle"}
    \/ clear_data \/ clear_gui
    \/ start_event \/ send_command \/ start_status \/ callback_raised
    \/ disconnect_check /\ clicks = MaxFourCallbacks - 2
    \/ disconnect_close \/ disconnect_flag \/ disconnect_return
    \/ _command_callback /\ clicks = 1 /\ fg'.op \in {"STOP", "idle"}
    \/ stop_recording
    \/ \E t \in 1..MaxCallbacks : _receive_data(t)
    \/ BoardSend
    \/ PeerFail

SpecFour == InitFour /\ [][NextFour]_vars

-----------------------------------------------------------------------------
(* A restart of the board: its clock starts again, so the text it sends
   after the restart carries smaller timestamps. The second segment is sent
   once the user's last callback, a clear or a new START, is over. *)

InitRestart ==
    /\ InitProgram
    /\ clicks = MaxCallbacks
    /\ script = <<LineB, LineA>>

NextRestart ==
    \/ connect_socket /\ OneConnection'
    \/ connect_start \/ connect_flag \/ connect_fail
    \/ _command_callback /\ fg'.op \in {"START", "idle"}
    \/ clear_button \/ clear_data \/ clear_gui
    \/ start_event \/ send_command \/ start_status \/ callback_raised
    \/ \E t \in 1..MaxCallbacks : _receive_data(t) /\ fg.pc \notin ClearPcs
    \/ BoardSend /\ (sentIdx = 0 \/ (clicks = 0 /\ fg = Idle))
    \/ PeerFail

SpecRestart == InitRestart /\ [][NextRestart]_vars

-----------------------------------------------------------------------------

(* Parameter changes: connect, START, then a change of the datarate or the
   range, made while recording or after a STOP; the receiver thread does not
   run while update_sensor_parameters runs. *)

UpdateOps == {"SET_DATARATE", "SET_RANGE"}

NextParams ==
    \/ connect_socket /\ clicks = MaxFourCallbacks
    \/ connect_start \/ connect_flag \/ connect_fail
    \/ _command_callback /\ clicks = MaxFourCallbacks - 1
                         /\ fg'.op \in {"START", "idle"}
    \/ clear_data \/ clear_gui
    \/ start_event \/ send_command \/ start_status \/ callback_raised
    \/ _command_callback /\ clicks = MaxFourCallbacks - 2
                         /\ fg'.op \in {"STOP", "idle"}
    \/ stop_recording
    \/ _command_callback /\ clicks \in {1, 2}
                         /\ fg'.op \in UpdateOps \cup {"idle"}
    \/ update_check \/ update_stop \/ update_reset \/ update_store
    \/ update_send
    \/ \E t \in 1..MaxCallbacks : _receive_data(t) /\ fg.op \notin UpdateOps
    \/ BoardSend
    \/ PeerFail

SpecParams == InitFour /\ [][NextParams]_vars

-----------------------------------------------------------------------------
(* Closing the application: a connection, one command or parameter change,
   then a second connection, a disconnect or a parameter change, and at the
   end a parameter change or the exit callback with its reset_sensors. *)

NextExit ==
    \/ connect_socket /\ clicks \in {MaxFourCallbacks, MaxFourCallbacks - 2}
    \/ connect_start \/ connect_flag \/ connect_fail
    \/ _command_callback
          /\ clicks = MaxFourCallbacks - 1
          /\ fg'.op \in {"START", "idle"} \cup UpdateOps
    \/ clear_data \/ clear_gui
    \/ start_event \/ send_command \/ start_status \/ callback_raised
    \/ disconnect_check /\ clicks = MaxFourCallbacks - 2
    \/ disconnect_close \/ disconnect_flag \/ disconnect_return
    \/ _command_callback
          /\ clicks \in {1, MaxFourCallbacks - 2}
          /\ fg'.op \in {"idle"} \cup UpdateOps
    \/ update_check \/ update_stop \/ update_reset \/ update_store \/ update_send
    \/ exit_callback /\ clicks = 1
    \/ reset_datarate \/ reset_range
    \/ \E t \in 1..MaxCallbacks : _receive_data(t)
    \/ BoardSend
    \/ PeerFail

SpecExit == InitFour /\ [][NextExit]_vars

-----------------------------------------------------------------------------

(* The line framer alone: lines 74-79 of _receive_data run on the chunks    *)
(* of one text stream, process_line only recording the line it is given     *)

FramerChars == {"7", ",", " ", NL}

RECURSIVE TextsOfLen(_)
TextsOfLen(n) ==
    IF n = 0 THEN {<<>>}
    ELSE {Append(s, c) : s \in TextsOfLen(n - 1), c \in FramerChars}

\* the streams of newline-terminated records, up to MaxStreamLen characters
FramerStreams ==
    UNION {{Append(s, NL) : s \in TextsOfLen(n)} : n \in 0..(MaxStreamLen - 1)}

\* the while loop of lines 77-79: the stripped lines split off a buffer ...
RECURSIVE FrameLines(_)
FrameLines(buf) ==
    IF Contains(buf, NL)
    THEN <<Strip(SplitFirst(buf)[1])>> \o FrameLines(SplitFirst(buf)[2])
    ELSE <<>>

\* ... and the partial line the loop leaves in the buffer
RECURSIVE FrameRest(_)
FrameRest(buf) ==
    IF Contains(buf, NL) THEN FrameRest(SplitFirst(buf)[2]) ELSE buf

InitFramer ==
    /\ InitProgram
    /\ clicks = MaxCallbacks
    /\ \E stream \in FramerStreams : script = <<stream>>

\* the whole stream is in flight
FramerSend ==
    /\ sentIdx = 0
    /\ sentIdx' = 1
    /\ wire' = script[1]
    /\ UNCHANGED <<connVars, thr, storeVars, guiVars, lastSent, fg, script,
                   peer, arrived, framed, console, clicks>>

\* one recv returns the next chunk, of any length, and the loop frames it
FramerFeed ==
    /\ sentIdx = 1
    /\ \E n \in 0..Len(wire) :
        LET buf == BufferAppend(buffer, SubSeq(wire, 1, n)) IN
        /\ wire' = SubSeq(wire, n + 1, Len(wire))
        /\ framed' = framed \o FrameLines(buf)
        /\ buffer' = FrameRest(buf)
    /\ UNCHANGED <<connVars, thr, data, active_sensors, params, starting_time,
                   guiVars, lastSent, fg, script, sentIdx, peer, arrived,
                   clicks, console>>

NextFramer == FramerSend \/ FramerFeed

SpecFramer == InitFramer /\ [][NextFramer]_vars

-----------------------------------------------------------------------------
(* Properties *)

Threads == 1..MaxCallbacks

\* thread t takes a step
Steps(t) == thr'[t] # thr[t]

\* the pcs at which a thread handles the line it split off the buffer
LinePcs == {"proc", "app_x", "app_y", "app_z", "app_norm", "active", "gui",
            "iv_len", "iv_calc", "mismatch"}

\* a record: exactly five fields, an integer and four floats
WellFormed(line) ==
    LET p == Split(line, ",") IN
    /\ Len(p) = 5
    /\ IsInt(p[1])
    /\ \A i \in 2..5 : IsFloat(p[i])

\* a non-empty line that is no record
Malformed(line) ==
    /\ Strip(line) # <<>>
    /\ ~WellFormed(Strip(line))

\* no series of the store holds a reading
StoreEmpty ==
    \A k \in DOMAIN data :
        /\ data[k].timestamp = <<>> /\ data[k].x = <<>> /\ data[k].y = <<>>
        /\ data[k].z = <<>> /\ data[k].normalized_timestamp = <<>>

\* C1: a malformed line does not stop the receive loop: the thread that
\* handles it reports "Invalid data" when process_line rejects it and does
\* not die on any step of handling it, so the lines after it are processed.
C1_MalformedLineKeepsLoopRunning ==
    [][\A t \in Threads :
         (thr[t].pc \in LinePcs /\ Malformed(thr[t].line) /\ Steps(t))
         => /\ thr'[t].pc # "crashed"
            /\ (thr[t].pc = "proc" => status' = "Invalid data")]_vars

\* C2: after disconnect() on a connected client the socket is closed, the
\* state is Disconnected and the receive loop of that connection terminates:
\* once disconnect() has returned and that loop can take no further step, it
\* is not alive.
C2_DisconnectEndsReceiveLoop ==
    (/\ socket # 0 /\ sockSt[socket] = "closed" /\ ~connected
     /\ fg = Idle
     /\ ~ENABLED _receive_data(socket))
    => ~Alive(socket)

\* C3: at most one receive loop is alive in every reachable state, and no
\* connect() is in progress (has replaced the socket) while the state is
\* Connected.
C3_AtMostOneReceiveLoop ==
    /\ Cardinality({t \in Threads : Alive(t)}) <= 1
    /\ ~(fg.op = "connect" /\ connected)

\* C4: a receive loop that has observed a zero-length read, a connection
\* reset or abort, or a timeout never goes round the loop again: it is not
\* back at the stop-event check or in another recv.
C4_NoLoopingAfterConnectionEnd ==
    \A t \in Threads :
        thr[t].got \in {"eof", "reset", "aborted", "timeout"}
        => thr[t].pc \notin {"check", "recv"}

C6_EmptyLineIgnored ==
    [][\A t \in Threads :
         (thr[t].pc \in LinePcs /\ Strip(thr[t].line) = <<>> /\ Steps(t))
         => /\ thr'[t].pc # "crashed"
            /\ UNCHANGED <<data, active_sensors, params, status>>]_vars

\* C7: data that arrives while the state is Stopped is never applied to the
\* store: as long as all the board's data arrived while Stopped, the store
\* holds no reading.
C7_StoppedDataNeverStored ==
    (arrived.stopped /\ ~arrived.recording) => StoreEmpty

\* C8: in every series of the store the first reading, which carries the
\* first timestamp of the session, has normalized timestamp 0.
C8_FirstReadingNormalizedToZero ==
    \A k \in DOMAIN data :
        (data[k].timestamp # <<>> /\ data[k].normalized_timestamp # <<>>)
        => data[k].normalized_timestamp[1] = 0

\* C9: once actual_interval_ms is set (to any value, 0 included) it changes
\* only by being reset to unset.
C9_IntervalComputedOnce ==
    [][(params.actual_interval # <<>>
        /\ params'.actual_interval # params.actual_interval)
       => params'.actual_interval = <<>>]_vars

\* C10: when _check_for_interval_mismatch runs on a computed interval, the
\* drift warning afterwards is shown exactly if |expected - actual| > 10.
C10_DriftWarningMatchesInterval ==
    [][\A t \in Threads :
         (thr[t].pc = "mismatch" /\ Steps(t)
          /\ params.actual_interval # <<>>)
         => mismatch_info' = (Abs(params.expected_interval
                                  - params.actual_interval[1]) > 10)]_vars

C12_DisconnectIdempotent ==
    [][(/\ ~connected
        /\ \/ fg = Idle /\ fg'.op = "disconnect"
           \/ fg.op = "disconnect" /\ fg.arg = 0 /\ fg' # fg)
       => /\ fg'.pc \in {"d_ret", "idle"}
          /\ UNCHANGED <<connVars, thr, storeVars, guiVars, lastSent,
                         console>>]_vars

\* C12 witness: a second disconnect() in a row is returning
C12_Witness ==
    /\ fg.op = "disconnect" /\ fg.pc = "d_ret" /\ fg.arg = 0
    /\ socket # 0 /\ sockSt[socket] = "closed" /\ ~connected
    /\ clicks = 0

\* C13: when clear_data() has run without the receiver thread running in
\* between, the active sensors and the buffer are empty, the actual interval
\* is unset and the store holds no reading; and as long as the store holds
\* no reading the table built from it is empty.
C13_ClearEmptiesStore ==
    /\ fg.pc = "clr_gui" =>
         /\ active_sensors = {} /\ buffer = <<>>
         /\ params.actual_interval = <<>>
         /\ StoreEmpty
    /\ StoreEmpty => _convert_to_dataframe = {}

\* C13 witness: clear_data() has just run on a store that held readings of
\* sensor 0 and a computed interval (the drift warning is still shown)
C13_Witness ==
    /\ fg.op = "clear" /\ fg.pc = "clr_gui"
    /\ starting_time[0] # 0 /\ mismatch_info
    /\ _convert_to_dataframe = {}

\* C14: the stored data rate and range never get ahead of the board: a step
\* that changes one of them stores a value that has already been written to
\* the socket.
C14_ParamsStoredAfterTransmission ==
    [][/\ params'.datarate # params.datarate
          => lastSent = ToString(params'.datarate)
       /\ params'.range # params.range
          => lastSent = ToString(params'.range)]_vars

\* C15: only lines of exactly five comma-separated fields are accepted: a
\* step of process_line on a non-empty line of fewer or more than five
\* fields reports "Invalid data" and leaves the store as it is.
C15_OnlyFiveFieldsAccepted ==
    [][\A t \in Threads :
         (/\ thr[t].pc = "proc" /\ Steps(t)
          /\ Strip(thr[t].line) # <<>>
          /\ Len(Split(Strip(thr[t].line), ",")) # 5)
         => status' = "Invalid data" /\ data' = data]_vars

\* C16: each of the four appends process_line makes for a well-formed line
\* id,ts_ms,x,y,z adds that line's value (the timestamp in seconds) to the
\* end of the matching list of sensor id, and leaves every other list and
\* every other sensor's series as it is.
C16_ReadingAppendedToItsSensor ==
    [][\A t \in Threads :
         (/\ thr[t].pc \in {"proc", "app_x", "app_y", "app_z"} /\ Steps(t)
          /\ WellFormed(Strip(thr[t].line)))
         => LET p == Split(Strip(thr[t].line), ",")
                id == IntVal(p[1])
                f == CASE thr[t].pc = "proc" -> "timestamp"
                       [] thr[t].pc = "app_x" -> "x"
                       [] thr[t].pc = "app_y" -> "y"
                       [] thr[t].pc = "app_z" -> "z"
                v == CASE thr[t].pc = "proc" -> FloatVal(p[2]) * 100
                       [] thr[t].pc = "app_x" -> FloatVal(p[3])
                       [] thr[t].pc = "app_y" -> FloatVal(p[4])
                       [] thr[t].pc = "app_z" -> FloatVal(p[5])
                old == IF id \in DOMAIN data THEN data[id] ELSE NewSeries
            IN  /\ DOMAIN data' = DOMAIN data \cup {id}
                /\ data'[id] = [old EXCEPT ![f] = Append(@, v)]
                /\ \A k \in DOMAIN data \ {id} : data'[k] = data[k]]_vars

\* C16 witness: "3,1500.0,0.1,0.2,9.8" has been processed after a reading
\* of sensor 0: sensor 3 holds (1.5 s, 0.1, 0.2, 9.8), sensor 0 its reading
C16_Witness ==
    /\ DOMAIN data = {0, 3}
    /\ data[3] = [timestamp |-> <<1500000>>, x |-> <<1>>, y |-> <<2>>,
                  z |-> <<98>>, normalized_timestamp |-> <<0>>]
    /\ data[0] = [timestamp |-> <<1000000>>, x |-> <<10>>, y |-> <<20>>,
                  z |-> <<30>>, normalized_timestamp |-> <<0>>]
    /\ active_sensors = {0, 3}

\* C17: connect() from Disconnected (the flag is false and no other socket
\* is open): when the socket connect succeeded, the call ends with the client
\* Connected, the stop event set (Stopped), the socket open and the receiver
\* thread it started running; when the socket connect failed, the client
\* stays disconnected, no thread is started and the failure is written to
\* the status line.
C17_ConnectFromDisconnected ==
    [][/\ (/\ At("connect", "c_flag") /\ fg' # fg
           /\ ~connected
           /\ \A i \in DOMAIN sockSt : i # socket => sockSt[i] # "open")
          => /\ connected' /\ stop_event'
             /\ sockSt'[socket'] = "open"
             /\ thr'[fg.arg].pc \notin {"none", "done", "crashed"}
       /\ (fg = Idle /\ ~connected /\ fg'.op = "connect"
           /\ sockSt'[socket'] # "open")
          => /\ ~connected' /\ thr' = thr /\ fg'.pc = "c_fail"
             /\ status' = "Connection failed"
       /\ (At("connect", "c_fail") /\ ~connected /\ fg' # fg)
          => ~connected' /\ thr' = thr /\ fg' = Idle]_vars

\* the step on which send_command(cmd) runs, with the command it was given
\* and the place its caller continues at
SendPcs == {"s_send", "t_send", "u_stop_send"}
SentCmd == IF fg.pc = "s_send" THEN "START" ELSE "STOP"
AfterSend == [s_send |-> "s_status", t_send |-> "t_event",
              u_stop_send |-> "u_stop_event"]

\* C18: send_command(cmd) writes the command to the socket only when the
\* client is connected: when it is not, nothing is written, printed or
\* raised; when it is and the socket is open, either the command is written,
\* or the write failed with a reset or broken pipe, "Connection lost" is
\* printed and the caller continues without an exception; with an open
\* socket and a reachable peer the command is written; the connection state
\* (socket, flag, stop event) is the same after the call in every case.
C18_SendOnlyWhenConnected ==
    [][(fg.pc \in SendPcs /\ fg' # fg)
       => /\ UNCHANGED <<connVars, thr>>
          /\ ~connected
             => /\ fg'.pc = AfterSend[fg.pc]
                /\ UNCHANGED <<lastSent, console>>
          /\ (connected /\ sockSt[socket] = "open")
             => /\ fg'.pc = AfterSend[fg.pc]
                /\ \/ lastSent' = SentCmd /\ console' = console
                   \/ /\ peer \in {"closed", "reset"}
                      /\ lastSent' = lastSent
                      /\ console' = "Connection lost"
          /\ (connected /\ sockSt[socket] = "open" /\ peer = "up")
             => lastSent' = SentCmd]_vars

\* C18 witness: a STOP failed on a connection the board had reset; the loss
\* was printed, the caller goes on and the client is still flagged connected
C18_Witness ==
    /\ fg.op = "STOP" /\ fg.pc = "t_event"
    /\ connected /\ sockSt[socket] = "open" /\ peer = "reset"
    /\ console = "Connection lost" /\ lastSent = "START"

\* C19: _start_recording() clears the store, then clears the stop event
\* (Stopped to Recording), then sends START: the callback's first statement
\* replaces the store by an empty one, so that every reading ingested before
\* the call is gone; stop_event.clear() runs only when the clearing has
\* finished; START is sent only after stop_event.clear(), by a client whose
\* stop event is clear.
C19_StartClearsThenRecordsThenSends ==
    [][/\ (fg = Idle /\ fg'.op = "START")
          => fg'.pc = "clr_data"
       /\ (At("START", "clr_data") /\ fg' # fg)
          => data' = EmptyDict /\ StoreEmpty' /\ lastSent' = lastSent
       /\ (fg.op = "START" /\ fg.pc \in ClearPcs /\ fg' # fg)
          => /\ fg'.op = "START" /\ fg'.pc \in ClearPcs \cup {"s_event"}
             /\ stop_event' = stop_event /\ lastSent' = lastSent
       /\ (fg'.pc = "s_event" /\ fg.pc # "s_event")
          => /\ At("START", "clr_gui")
             /\ active_sensors = {} /\ params.actual_interval = <<>>
       /\ (At("START", "s_event") /\ fg' # fg)
          => ~stop_event' /\ fg'.pc = "s_send" /\ lastSent' = lastSent
       /\ (fg'.pc = "s_send" /\ fg.pc # "s_send")
          => At("START", "s_event")
       /\ (At("START", "s_send") /\ fg' # fg /\ connected
           /\ sockSt[socket] = "open" /\ peer = "up")
          => lastSent' = "START" /\ fg'.pc = "s_status"]_vars

\* C19 witness: a second START has been sent; the reading recorded after the
\* first one (it set the starting time of sensor 0) is gone from the store
C19_Witness ==
    /\ At("START", "s_status") /\ lastSent = "START"
    /\ starting_time[0] # 0
    /\ StoreEmpty /\ active_sensors = {} /\ ~stop_event

\* C20: stop_recording() sends STOP once and leaves the stop event set:
\* whichever way the call ends, by returning after line 194 or by an
\* exception of the send, the stop event is set afterwards, and the only
\* thing the call writes to the socket is one STOP.
C20_StoppedAfterStopRecording ==
    [][/\ (fg.pc \in {"t_send", "u_stop_send"} /\ fg' # fg)
          => /\ lastSent' \in {lastSent, "STOP"}
             /\ fg'.pc = "raised" => stop_event'
       /\ (fg.pc \in {"t_event", "u_stop_event"} /\ fg' # fg)
          => stop_event' /\ lastSent' = lastSent]_vars

\* the pcs at which a thread is between the first append of process_line and
\* the addition of the sensor to active_sensors
AppendPcs == {"app_x", "app_y", "app_z", "app_norm", "active"}

\* no thread is inside the appends of process_line and the foreground is
\* not inside a clear
StoreAtRest ==
    /\ \A t \in Threads : thr[t].pc \notin AppendPcs
    /\ fg.pc \notin ClearPcs

\* a series holds at least one reading, whole or in part
HoldsReading(s) ==
    \/ s.timestamp # <<>> \/ s.x # <<>> \/ s.y # <<>> \/ s.z # <<>>
    \/ s.normalized_timestamp # <<>>

\* C21: whenever no append and no clear is under way, active_sensors is
\* exactly the set of sensor ids whose series in the store holds at least
\* one reading.
C21_ActiveSensorsAreStoreKeys ==
    StoreAtRest =>
        active_sensors = {k \in DOMAIN data : HoldsReading(data[k])}

\* a series of sensor k whose origin has been used: it holds a normalized
\* timestamp
HasOrigin(d, k) == k \in DOMAIN d /\ d[k].normalized_timestamp # <<>>

\* C22: the starting time of a sensor does not change while the sensor's
\* series holds a normalized timestamp, whatever timestamp arrives next.
C22_OriginNeverChanges ==
    [][\A k \in 0..7 :
         (HasOrigin(data, k) /\ HasOrigin(data', k))
         => starting_time'[k] = starting_time[k]]_vars

C24_RecordingImpliesConnected ==
    (\E t \in Threads : thr[t].pc # "none") => (~stop_event => connected)

\* a receiver thread ended by running disconnect() after a socket failure
ForcedOff(t) == thr[t].pc = "done" /\ thr[t].exc # ""

\* C25: after a receiver thread has disconnected the client because of a
\* socket failure, and until the user starts a connect(), the client stays
\* disconnected and no receiver thread is left running; only a connect()
\* sets the connected flag or starts a thread.
C25_NoReconnectOnItsOwn ==
    /\ [][(connected' /\ ~connected) => At("connect", "c_flag")]_vars
    /\ [][\A t \in Threads :
            (thr[t].pc = "none" /\ thr'[t].pc # "none")
            => At("connect", "c_start")]_vars
    /\ []((fg.op # "connect" /\ ~connected
           /\ \E t \in Threads : ForcedOff(t))
          => \A t \in Threads : ~Alive(t))

\* C26: while the stop event is set and no callback is running (that is,
\* from the return of stop_recording() or disconnect() until the next
\* _start_recording()), no step appends to the store or changes the actual
\* interval.
C26_NoMutationWhileStopped ==
    [][(stop_event /\ fg = Idle)
       => /\ data' = data
          /\ params'.actual_interval = params.actual_interval]_vars

\* C27: a clear that interleaves with the handling of a reading does not
\* split the reading and does not make the receiver thread fail: whenever no
\* append is under way, the five lists of every series have one length, and
\* no thread that is handling a line (process_line, _update_gui_table,
\* _update_actual_interval) dies of a ValueError.
C27_ClearNeverSplitsReading ==
    /\ []((\A t \in Threads : thr[t].pc \notin AppendPcs)
          => \A k \in DOMAIN data : SeriesOK(data[k]))
    /\ [][\A t \in Threads :
            (thr[t].pc \in LinePcs /\ thr'[t].pc = "crashed")
            => thr'[t].exc # "ValueError"]_vars

\* C28: when a change of the datarate or the range has taken effect (the new
\* value was stored and transmitted), the actual interval is unset, whether
\* the client was recording or stopped when the change was made.
C28_IntervalUnsetAfterParameterChange ==
    [][(fg.pc = "u_send" /\ fg' = Idle)
       => params'.actual_interval = <<>>]_vars

\* C29: no statement run on the foreground thread writes the carry-over
\* buffer, a series of the store, the actual interval or the drift warning:
\* only steps of a receiver thread change them.
C29_ReceiverThreadIsSoleWriter ==
    [][(fg' # fg)
       => /\ buffer' = buffer
          /\ data' = data
          /\ params'.actual_interval = params.actual_interval
          /\ mismatch_info' = mismatch_info]_vars

\* C30: whenever no append is under way, every sensor id in active_sensors
\* and every key of the store whose series holds a value is within 0..7.
C30_SensorIdsWithinRange ==
    (\A t \in Threads : thr[t].pc \notin AppendPcs)
    => /\ active_sensors \subseteq 0..7
       /\ \A k \in DOMAIN data : HoldsReading(data[k]) => k \in 0..7


-----------------------------------------------------------------------------
-----------------------------------------------------------------------------
\* C32: whenever no append and no clear is under way, the timestamp, x, y,
\* z and normalized-timestamp sequences of every sensor in the store have
\* one length, whatever lines were received (rejected ones included) and
\* whatever was cleared.
C32_SeriesOfOneLength ==
    StoreAtRest => \A k \in DOMAIN data : SeriesOK(data[k])


-----------------------------------------------------------------------------
\* C33: a line that is reported as invalid leaves the store as it was: the
\* step that reports "Invalid data" is taken before anything of the line
\* was appended (from the parse, not from the normalization that follows
\* the four appends) and changes neither the store nor the active sensors.
C33_InvalidLineLeavesStoreAlone ==
    [][\A t \in Threads :
         (/\ Steps(t)
          /\ thr[t].pc \in {"proc", "app_norm"}
          /\ thr'[t].pc = "gui"
          /\ Strip(thr[t].line) # <<>>)
         => (/\ thr[t].pc = "proc"
             /\ data' = data
             /\ active_sensors' = active_sensors)]_vars


-----------------------------------------------------------------------------
\* a step of the foreground that writes to the socket: send_command or the
\* sendall of update_sensor_parameters went through
WritesToSocket ==
    \/ fg.pc \in SendPcs /\ fg' # fg /\ lastSent' = SentCmd
                         /\ console' = console /\ SendGuard
    \/ fg.pc = "u_send" /\ fg' # fg /\ fg'.pc # "raised"

\* C34: nothing is written to the socket while the client is not connected,
\* on any path: START, STOP and parameter changes from the GUI, and the
\* reset_sensors() of the exit callback.
C34_NoWriteWhileDisconnected ==
    [][~connected => ~WritesToSocket]_vars


-----------------------------------------------------------------------------
\* C35: whenever the drift warning is shown and no callback is under way,
\* the actual interval is set and differs from the current expected interval
\* by more than 10 ms; the warning does not outlive a parameter change that
\* unsets the actual interval or changes the expected one.
C35_WarningOnlyWithDrift ==
    (fg = Idle /\ mismatch_info)
    => /\ params.actual_interval # <<>>
       /\ Mismatch(params.expected_interval, params.actual_interval[1])


-----------------------------------------------------------------------------
\* t[1] <= t[2] <= ...
NonDecreasing(t) == \A i, j \in 1..Len(t) : i < j => t[i] <= t[j]

\* C36: when the timestamps stored for each sensor since the last clear do
\* not go down, every normalized timestamp in the store is non-negative,
\* also after a clear or a new START and when the board's clock has started
\* again at a smaller value.
C36_NormalizedNeverNegative ==
    (\A k \in DOMAIN data : NonDecreasing(data[k].timestamp))
    => \A k \in DOMAIN data :
         \A i \in 1..Len(data[k].normalized_timestamp) :
           data[k].normalized_timestamp[i] >= 0


-----------------------------------------------------------------------------
\* C37: a START, STOP or set-parameter command issued while the client is
\* not connected (the one callback that leaves the foreground idle or inside
\* a command) starts nothing and changes nothing in the core: the store,
\* the active sensors, the parameters, the stop event, the connection and
\* what was sent stay as they are; only the status message is set.
C37_CommandWhileDisconnectedIsNoOp ==
    [][(/\ fg = Idle /\ clicks' < clicks /\ ~connected
        /\ fg'.op \in {"idle", "START", "STOP"} \cup UpdateOps)
       => /\ fg' = Idle
          /\ status' = "Connect to the board"
          /\ UNCHANGED <<storeVars, connVars, thr, lastSent, mismatch_info>>]_vars

\* C37 witness: a command was refused after readings were recorded and the
\* connection was lost
C37_Witness ==
    /\ status = "Connect to the board" /\ ~connected /\ fg = Idle
    /\ active_sensors # {}
    /\ \E k \in DOMAIN data : data[k].timestamp # <<>>


-----------------------------------------------------------------------------
\* the pcs at which a receiver thread is inside an except clause and the
\* disconnect() it calls
ForcedDisconnectPcs == {"except", "x_close", "x_flag"}

\* C38: no step of disconnect(), called by the user or by a receiver thread
\* after a socket failure, changes what was recorded: every series, the
\* active sensors and the actual interval are the same after the step, and
\* so is the frame that an export would build from them.
C38_DisconnectKeepsRecordedData ==
    [][(\/ fg = Idle /\ fg'.op = "disconnect"
        \/ fg.op = "disconnect" /\ fg' # fg
        \/ \E t \in Threads : thr[t].pc \in ForcedDisconnectPcs /\ Steps(t))
       => /\ data' = data
          /\ active_sensors' = active_sensors
          /\ params'.actual_interval = params.actual_interval
          /\ _convert_to_dataframe' = _convert_to_dataframe]_vars

\* C38 witness: readings were recorded and an interval computed, then the
\* connection failed and the receiver thread disconnected the client
C38_Witness ==
    /\ ~connected
    /\ \E t \in Threads : thr[t].pc = "done" /\ thr[t].exc # ""
    /\ active_sensors # {}
    /\ params.actual_interval # <<>>
    /\ _convert_to_dataframe \notin {{}, {"ValueError"}}

=============================================================================
